---- MODULE Spec2Model ----
(***************************************************************************)
(* A model of file-list-size (src/src/main.rs): the run of `execute` over  *)
(* a working directory, from the listing command to the printed report,    *)
(* and the pure size formatter `size_str`.                                 *)
(*                                                                         *)
(* A Rust String is modelled as a sequence of one-character strings, so    *)
(* that split, scan, contains, slicing and formatting are computed the way *)
(* the code computes them.  Indices h_index, w_index are 0-based as in the *)
(* source; sequences are 1-based, hence the +1 at every subscript.         *)
(***************************************************************************)
EXTENDS Integers, Sequences, FiniteSets, TLC

\* ------------------------------------------------------------------ bounds
\* File sizes on disk range over 1..MaxSize bytes.
MaxSize == 2
\* At most MaxFiles of the catalogue's files are present on disk.
MaxFiles == 3

\* ------------------------------------------------------------- characters
\* std::path::MAIN_SEPARATOR on unix.
SEP == "/"
NL == "\n"
DOT == "."

\* ----------------------------------------------------- generic sequences
RECURSIVE SeqToSet(_)
SeqToSet(s) == IF s = <<>> THEN {} ELSE {Head(s)} \cup SeqToSet(Tail(s))

RECURSIVE Flat(_)
\* Concatenation of a sequence of sequences.
Flat(ss) == IF ss = <<>> THEN <<>> ELSE Head(ss) \o Flat(Tail(ss))

\* All orders in which a collection may enumerate the finite set S.
Perms(S) ==
    {f \in [1..Cardinality(S) -> S] : \A i, j \in 1..Cardinality(S) : i # j => f[i] # f[j]}

\* ---------------------------------------------------------------- strings
\* s[from..] with a 0-based byte offset, as the Rust slice &s[from..].
StrFrom(s, from) == SubSeq(s, from + 1, Len(s))

\* s[..to] with a 0-based exclusive end, as the Rust slice &s[..to].
StrTo(s, to) == SubSeq(s, 1, to)

\* str::contains: needle occurs in hay as a contiguous substring.
StrContains(hay, needle) ==
    \E i \in 0..(Len(hay) - Len(needle)) : SubSeq(hay, i + 1, i + Len(needle)) = needle

RECURSIVE SplitFrom(_, _, _)
\* str::split on a one-character separator: cur is the piece being read.
SplitFrom(s, sep, cur) ==
    IF s = <<>> THEN <<cur>>
    ELSE IF Head(s) = sep THEN <<cur>> \o SplitFrom(Tail(s), sep, <<>>)
    ELSE SplitFrom(Tail(s), sep, Append(cur, Head(s)))

StrSplit(s, sep) == SplitFrom(s, sep, <<>>)

\* ------------------------------------------------------------ the world
\* The relative paths a working directory may hold, in the sorted order in
\* which `git ls-files` prints them.
Catalogue ==
    << <<"a", "/", "b", "/", "x">>,
       <<"a", "/", "b", "c", "/", "d", "/", "x">>,
       <<"a", "/", "x">>,
       <<"a", "/", "y">>,
       <<"a", "b", "/", "c", "/", "x">>,
       <<"x">> >>

FileIds == 1..Len(Catalogue)

Absent == [kind |-> "absent", size |-> 0]

\* What a catalogue path is on disk: absent; a tracked file; an untracked
\* file of some size; an untracked file whose metadata cannot be read.
FileStates ==
    {Absent, [kind |-> "tracked", size |-> 1], [kind |-> "unreadable", size |-> 1]}
        \cup {[kind |-> "untracked", size |-> n] : n \in 1..MaxSize}

Disks ==
    {d \in [FileIds -> FileStates] :
        Cardinality({i \in FileIds : d[i] # Absent}) <= MaxFiles}

\* What `git ls-files --others --exclude-standard` lists.
Listed(d) == {i \in FileIds : d[i].kind \in {"untracked", "unreadable"}}

RECURSIVE LinesFrom(_, _)
LinesFrom(d, i) ==
    IF i > Len(Catalogue) THEN <<>>
    ELSE (IF i \in Listed(d) THEN Catalogue[i] \o <<NL>> ELSE <<>>) \o LinesFrom(d, i + 1)

\* The command's standard output: one listed path per line.
GitStdout(d) == LinesFrom(d, 1)

\* ---------------------------------------------------------------- state
VARIABLES
    pc,            \* where the run is: see Next
    disk,          \* the working directory: FileIds -> FileStates
    cmd,           \* the outcome of Command::output(): "none", "spawn_error", "invalid_utf8", "git_error", "ok"
    file_list,     \* execute's file_list: Vec<String>
    file_hash_set, \* execute's file_hash_set: HashSet<String>
    dir_matrix,    \* execute's dir_matrix: Vec<Vec<String>>
    file_tree,     \* execute's file_tree: Option<FileTree>
    stdout,        \* the records printed to standard output, in order
    stderr,        \* what was written to the error stream: a sequence of lines
    exit_code,     \* the process's exit code, -1 while it runs
    fmt_in,        \* the argument of a size_str call (see SpecFmt)
    fmt_out        \* its result

vars ==
    <<pc, disk, cmd, file_list, file_hash_set, dir_matrix, file_tree, stdout, stderr,
      exit_code, fmt_in, fmt_out>>

\* ------------------------------------------------------- Option / unwind
None == [kind |-> "None"]
Some(t) == [kind |-> "Some", tree |-> t]
\* A panic unwinding out of the enclosing call (an unwrap() on an Err).
Panic == [kind |-> "Panic"]

\* ------------------------------------------------------ get_file_list_from
get_file_list_from(std_out) ==
    SelectSeq(StrSplit(std_out, NL), LAMBDA x : x # <<>>)

\* ------------------------------------------------- get_dir_hierarchy_matrix
RECURSIVE ScanFrom(_, _)
\* .scan(String::from(""), |acc, next| { acc.push(SEP); acc.push_str(next); Some(acc) })
ScanFrom(segs, acc) ==
    IF segs = <<>> THEN <<>>
    ELSE LET a == (acc \o <<SEP>>) \o Head(segs)
         IN <<a>> \o ScanFrom(Tail(segs), a)

\* One file's path as the list of its cumulative prefixes, "/a", "/a/b", ...
PathPrefixes(s) == ScanFrom(StrSplit(s, SEP), <<>>)

\* The test "ignore files" of dir_tree_hierarchy, a variant that never breaks.
IsFileIndexNever(i, vec_length) == FALSE

\* dir_tree_hierarchy's test `if i == vec_length - 1 { break; }`.
IsFileIndex(i, vec_length) == i = vec_length - 1

RECURSIVE InsertVec(_, _, _)
\* The inner loop `for i in 0..vec_length` from index i on.
InsertVec(output, vec, i) ==
    IF i >= Len(vec) \/ IsFileIndex(i, Len(vec)) THEN output
    ELSE LET input_item == vec[i + 1]
             out2 == IF i < Len(output)
                     THEN [output EXCEPT ![i + 1] = @ \cup {input_item}]
                     ELSE Append(output, {input_item})
         IN InsertVec(out2, vec, i + 1)

RECURSIVE HierarchySets(_, _)
\* The outer loop `for vec in input.iter()`: output is a Vec<HashSet<T>>.
HierarchySets(input, output) ==
    IF input = <<>> THEN output
    ELSE HierarchySets(Tail(input), InsertVec(output, Head(input), 0))

RECURSIVE Orders(_)
\* Every way to enumerate each set of a sequence of sets: a HashSet yields
\* its elements in an unspecified order.
Orders(sets) ==
    IF sets = <<>> THEN {<<>>}
    ELSE {<<h>> \o t : h \in Perms(Head(sets)), t \in Orders(Tail(sets))}

\* dir_tree_hierarchy: every Vec<Vec<T>> the final
\* `output.into_iter().map(|x| x.into_iter().collect()).collect()` may yield.
dir_tree_hierarchy(input) == Orders(HierarchySets(input, <<>>))

get_dir_hierarchy_matrix(files) ==
    dir_tree_hierarchy([k \in 1..Len(files) |-> PathPrefixes(files[k])])

\* ------------------------------------------------------------ filesystem
\* The directory part of a relative path: what precedes its last separator.
RECURSIVE ParentDir(_)
ParentDir(p) ==
    IF p = <<>> THEN <<>>
    ELSE IF p[Len(p)] = SEP THEN SubSeq(p, 1, Len(p) - 1)
    ELSE ParentDir(SubSeq(p, 1, Len(p) - 1))

\* The name of the immediate subdirectory of rel through which file p is
\* reached, <<>> when p is not below a subdirectory of rel.
SubdirName(p, rel) ==
    LET segs == StrSplit(p, SEP)
        rsegs == StrSplit(rel, SEP)
    IN IF Len(segs) > Len(rsegs) + 1 /\ SubSeq(segs, 1, Len(rsegs)) = rsegs
       THEN segs[Len(rsegs) + 1]
       ELSE <<>>

RECURSIVE ReadDirFrom(_, _, _)
\* The entries of directory "./rel" from catalogue position i on: the files
\* directly in it and its subdirectories (each once), in name order (one of
\* the orders read_dir may yield).  The working directory does not change
\* while the program runs.
ReadDirFrom(rel, i, seen) ==
    IF i > Len(Catalogue) THEN <<>>
    ELSE IF disk[i] = Absent THEN ReadDirFrom(rel, i + 1, seen)
    ELSE IF ParentDir(Catalogue[i]) = rel
    THEN <<[path |-> <<DOT, SEP>> \o Catalogue[i],
            is_file |-> TRUE,
            meta_ok |-> disk[i].kind # "unreadable",
            size |-> disk[i].size]>> \o ReadDirFrom(rel, i + 1, seen)
    ELSE LET sub == SubdirName(Catalogue[i], rel)
         IN IF sub = <<>> \/ sub \in seen THEN ReadDirFrom(rel, i + 1, seen)
            ELSE <<[path |-> (((<<DOT, SEP>> \o rel) \o <<SEP>>) \o sub),
                    is_file |-> FALSE,
                    meta_ok |-> TRUE,
                    size |-> 0]>> \o ReadDirFrom(rel, i + 1, seen \cup {sub})

\* fs::read_dir(path) for a path "./rel" of the working directory.
ReadDir(path) == ReadDirFrom(StrFrom(path, 2), 1, {})

\* ------------------------------------------------------- get_files_at_dir
\* A filter that keeps every regular file of the directory.
IsTargetAlways(untracked_files, fp) == TRUE

\* `.filter(|(fp, _)| untracked_files.contains(&fp[2..]))`
IsTarget(untracked_files, fp) == StrFrom(fp, 2) \in untracked_files

\* get_files_at_dir: Panic when an entry or its metadata cannot be read
\* (the unwrap()s of lines 129-130), else the Vec<File>.
get_files_at_dir(untracked_files, dir_path) ==
    LET entries == ReadDir(<<DOT>> \o dir_path)
    IN IF \E k \in 1..Len(entries) : ~entries[k].meta_ok THEN Panic
       ELSE LET kept == SelectSeq(entries,
                            LAMBDA e : e.is_file /\ IsTarget(untracked_files, e.path))
            IN [kind |-> "Ok",
                files |-> [k \in 1..Len(kept) |->
                              [path |-> kept[k].path, byte_size |-> kept[k].size]]]

\* ----------------------------------------------------------------- size_str
\* An f64 argument of size_str is modelled exactly, as ip + fp/100 with
\* ip a natural number and fp \in 0..99; within the model's range Rust's
\* f64 division by a power of ten followed by to_string() yields the exact
\* decimal expansion (shortest round-trip representation, fewer than 15
\* significant digits), which is what F64Div/F64ToString compute.
DIGITS == <<"0", "1", "2", "3", "4", "5", "6", "7", "8", "9">>

F64(n) == [ip |-> n, fp |-> 0]

RECURSIVE NatToString(_)
NatToString(n) ==
    IF n < 10 THEN <<DIGITS[n + 1]>> ELSE Append(NatToString(n \div 10), DIGITS[(n % 10) + 1])

RECURSIVE PaddedDigits(_, _)
\* The k low decimal digits of n, most significant first.
PaddedDigits(n, k) ==
    IF k = 0 THEN <<>> ELSE Append(PaddedDigits(n \div 10, k - 1), n % 10)

RECURSIVE StripZeros(_)
StripZeros(ds) ==
    IF ds # <<>> /\ ds[Len(ds)] = 0 THEN StripZeros(SubSeq(ds, 1, Len(ds) - 1)) ELSE ds

RECURSIVE Pow10(_)
Pow10(k) == IF k = 0 THEN 1 ELSE 10 * Pow10(k - 1)

\* x / 10^k as a decimal: its integer part and its fraction digits.
F64Div(x, k) ==
    [int |-> x.ip \div Pow10(k),
     frac |-> StripZeros(PaddedDigits(x.ip % Pow10(k), k) \o <<x.fp \div 10, x.fp % 10>>)]

\* f64::to_string(): no decimal point when the value is an integer.
F64ToString(d) ==
    IF d.frac = <<>> THEN NatToString(d.int)
    ELSE (NatToString(d.int) \o <<DOT>>) \o [k \in 1..Len(d.frac) |-> DIGITS[d.frac[k] + 1]]

\* x <= ip.f and x >= ip.f for a literal with one fraction digit f.
F64Le(x, ip, f) == x.ip < ip \/ (x.ip = ip /\ x.fp <= 10 * f)
F64Ge(x, ip, f) == x.ip > ip \/ (x.ip = ip /\ x.fp >= 10 * f)

\* truncate_decimal: cut after the first character that follows the first '.'.
truncate_decimal(s) ==
    LET dots == {i \in 0..(Len(s) - 1) : s[i + 1] = DOT}
    IN IF dots # {}
       THEN LET index == CHOOSE i \in dots : \A j \in dots : i <= j
            IN StrTo(s, index + 2)
       ELSE s

size_str(x) ==
    IF F64Ge(x, 0, 0) /\ F64Le(x, 999, 9)
    THEN truncate_decimal(F64ToString(F64Div(x, 0))) \o <<"b">>
    ELSE IF F64Ge(x, 1000, 0) /\ F64Le(x, 999999, 9)
    THEN truncate_decimal(F64ToString(F64Div(x, 3))) \o <<"k", "b">>
    ELSE IF F64Ge(x, 1000000, 0) /\ F64Le(x, 999999999, 9)
    THEN truncate_decimal(F64ToString(F64Div(x, 6))) \o <<"m", "b">>
    ELSE truncate_decimal(F64ToString(F64Div(x, 9))) \o <<"g", "b">>

\* ------------------------------------------------------------ FileTree::new
RECURSIVE SumFiles(_)
\* files_in_cur_dir.iter().fold(0, |acc, file| acc + file.byte_size)
SumFiles(files) == IF files = <<>> THEN 0 ELSE Head(files).byte_size + SumFiles(Tail(files))

RECURSIVE SumNodes(_)
\* child_nodes.iter().fold(0, |acc, tree| acc + tree.size)
SumNodes(nodes) == IF nodes = <<>> THEN 0 ELSE Head(nodes).size + SumNodes(Tail(nodes))

\* A node size that leaves the children out.
NodeSizeOwnFiles(files_in_cur_dir, child_nodes) == SumFiles(files_in_cur_dir)

\* `size: size_of_cur_dir + size_of_children`
NodeSize(files_in_cur_dir, child_nodes) == SumFiles(files_in_cur_dir) + SumNodes(child_nodes)

\* `.filter(|(_, ch)| ch.contains(dir))`
IsChildCandidate(ch, dir) == StrContains(ch, dir)

RECURSIVE FileTreeNew(_, _, _, _)
\* FileTree::new: None, Some(tree), or Panic when a get_files_at_dir below
\* it unwinds.
FileTreeNew(matrix, target_files, h_index, w_index) ==
    LET tree_height == Len(matrix)
        children_index == h_index + 1
    IN IF children_index > tree_height THEN None
       ELSE
         LET children == IF children_index = tree_height THEN <<>> ELSE matrix[h_index + 2]
             dir == matrix[h_index + 1][w_index + 1]
             built == [i \in 1..Len(children) |->
                          IF IsChildCandidate(children[i], dir)
                          THEN FileTreeNew(matrix, target_files, h_index + 1, i - 1)
                          ELSE None]
             somes == SelectSeq(built, LAMBDA r : r.kind = "Some")
             child_nodes == [k \in 1..Len(somes) |-> somes[k].tree]
             files_in_cur_dir == get_files_at_dir(target_files, dir)
             files == get_files_at_dir(target_files, dir)
         IN IF \E i \in 1..Len(built) : built[i].kind = "Panic" THEN Panic
            ELSE IF files_in_cur_dir.kind = "Panic" \/ files.kind = "Panic" THEN Panic
            ELSE Some([dir |-> dir,
                       files |-> files.files,
                       nodes |-> child_nodes,
                       size |-> NodeSize(files_in_cur_dir.files, child_nodes)])

\* ------------------------------------------------------- flatten and print
RECURSIVE flatten(_)
\* FileTree::flatten: this node's FileTreeInfo, then each child's, in order.
flatten(t) ==
    <<[dir |-> t.dir, files |-> t.files, size |-> t.size]>>
        \o Flat([k \in 1..Len(t.nodes) |-> flatten(t.nodes[k])])

RECURSIVE InsertByKey(_, _)
\* Insert pair p into the key-sorted sequence s after every pair whose key
\* is not greater: the order a stable sort gives equal keys.
InsertByKey(s, p) ==
    IF s = <<>> THEN <<p>>
    ELSE IF s[Len(s)].key <= p.key THEN Append(s, p)
    ELSE Append(InsertByKey(SubSeq(s, 1, Len(s) - 1), p), s[Len(s)])

RECURSIVE StableSort(_)
StableSort(ps) ==
    IF ps = <<>> THEN <<>>
    ELSE InsertByKey(StableSort(SubSeq(ps, 1, Len(ps) - 1)), ps[Len(ps)])

\* The records left in the order flatten produced them.
sorted_info_unsorted(file_tree_infos) == file_tree_infos

\* `file_tree_infos.iter().sorted_by(|a, b| a.size.cmp(&b.size))`
sorted_info(file_tree_infos) ==
    LET ps == StableSort([k \in 1..Len(file_tree_infos) |->
                             [key |-> file_tree_infos[k].size, val |-> file_tree_infos[k]]])
    IN [k \in 1..Len(ps) |-> ps[k].val]

\* `inf.files.iter().sorted_by(|a, b| a.byte_size.cmp(&b.byte_size))`
sorted_files(files) ==
    LET ps == StableSort([k \in 1..Len(files) |->
                             [key |-> files[k].byte_size, val |-> files[k]]])
    IN [k \in 1..Len(ps) |-> ps[k].val]

\* What one iteration of print's for_each writes: the directory line, then
\* one line per file.
PrintRecord(inf) ==
    LET fs == sorted_files(inf.files)
    IN [dir |-> inf.dir,
        size |-> inf.size,
        text |-> size_str(F64(inf.size)),
        files |-> [k \in 1..Len(fs) |->
                      [path |-> fs[k].path,
                       byte_size |-> fs[k].byte_size,
                       text |-> size_str(F64(fs[k].byte_size))]]]

\* FileTree::print: the records written, in order.
print(t) ==
    LET infos == sorted_info(flatten(t))
    IN [k \in 1..Len(infos) |-> PrintRecord(infos[k])]

\* ------------------------------------------------------------------ main
\* The exit of a main that reports every outcome as a failure.
MainExitAlwaysFails(result) == 1

\* main: `Ok(()) => exit(0)`, `Err(err) => exit_with(..)` which exits 1.
MainExit(result) == IF result = "Ok" THEN 0 ELSE 1

\* ---------------------------------------------------------------- actions
Init ==
    /\ pc = "start"
    /\ disk \in Disks
    /\ cmd = "none"
    /\ file_list = <<>>
    /\ file_hash_set = {}
    /\ dir_matrix = <<>>
    /\ file_tree = None
    /\ stdout = <<>>
    /\ stderr = <<>>
    /\ exit_code = -1
    /\ fmt_in = F64(0)
    /\ fmt_out = <<>>

\* execute, line 208-211: run `sh -c "git ls-files --others
\* --exclude-standard"`.  The spawn may fail (the `?` returns Err); the
\* output may not be UTF-8; git may fail inside sh (a non-zero status that
\* execute never reads, with nothing on stdout); or the listing succeeds.
RunCommand ==
    /\ pc = "start"
    /\ \E outcome \in {"spawn_error", "invalid_utf8", "git_error", "ok"} :
          /\ cmd' = outcome
          /\ pc' = IF outcome = "spawn_error" THEN "err" ELSE "decode"
    /\ UNCHANGED <<disk, file_list, file_hash_set, dir_matrix, file_tree, stdout, stderr,
                   exit_code, fmt_in, fmt_out>>

\* execute, line 213-215: String::from_utf8(cmd.stdout).unwrap(), then the
\* file list and the hash set.  The unwrap panics on invalid UTF-8: the
\* panic message goes to the error stream and the process exits with 101.
DecodeStdout ==
    /\ pc = "decode"
    /\ IF cmd = "invalid_utf8"
       THEN /\ pc' = "panicked"
            /\ stderr' = <<"thread main panicked at src/main.rs:213",
                           "called Result::unwrap() on an Err value: FromUtf8Error",
                           "note: run with RUST_BACKTRACE=1 environment variable to display a backtrace">>
            /\ exit_code' = 101
            /\ UNCHANGED <<file_list, file_hash_set>>
       ELSE LET std_out == IF cmd = "ok" THEN GitStdout(disk) ELSE <<>>
                list == get_file_list_from(std_out)
            IN /\ file_list' = list
               /\ file_hash_set' = SeqToSet(list)
               /\ pc' = "matrix"
               /\ UNCHANGED <<stderr, exit_code>>
    /\ UNCHANGED <<disk, cmd, dir_matrix, file_tree, stdout, fmt_in, fmt_out>>

\* execute, line 217.
BuildMatrix ==
    /\ pc = "matrix"
    /\ \E m \in get_dir_hierarchy_matrix(file_list) : dir_matrix' = m
    /\ pc' = "tree"
    /\ UNCHANGED <<disk, cmd, file_list, file_hash_set, file_tree, stdout, stderr, exit_code,
                   fmt_in, fmt_out>>

\* execute, line 218: FileTree::new(&dir_matrix, &file_hash_set, 0, 0).
BuildTree ==
    /\ pc = "tree"
    /\ LET r == FileTreeNew(dir_matrix, file_hash_set, 0, 0)
       IN IF r.kind = "Panic"
          THEN /\ pc' = "panicked"
               /\ stderr' = <<"thread main panicked at src/main.rs:130",
                              "called Result::unwrap() on an Err value: Os",
                              "note: run with RUST_BACKTRACE=1 environment variable to display a backtrace">>
               /\ exit_code' = 101
               /\ UNCHANGED file_tree
          ELSE /\ file_tree' = r
               /\ pc' = "print"
               /\ UNCHANGED <<stderr, exit_code>>
    /\ UNCHANGED <<disk, cmd, file_list, file_hash_set, dir_matrix, stdout, fmt_in, fmt_out>>

\* execute, line 219-223: print the tree when there is one, return Ok(()).
PrintTree ==
    /\ pc = "print"
    /\ stdout' = IF file_tree.kind = "Some" THEN print(file_tree.tree) ELSE stdout
    /\ pc' = "ok"
    /\ UNCHANGED <<disk, cmd, file_list, file_hash_set, dir_matrix, file_tree, stderr,
                   exit_code, fmt_in, fmt_out>>

\* main, line 229: execute returned Ok(()).
ExitOk ==
    /\ pc = "ok"
    /\ exit_code' = MainExit("Ok")
    /\ pc' = "exited"
    /\ UNCHANGED <<disk, cmd, file_list, file_hash_set, dir_matrix, file_tree, stdout, stderr,
                   fmt_in, fmt_out>>

\* main, line 230 and exit_with: execute returned Err.
ExitErr ==
    /\ pc = "err"
    /\ stderr' = <<"Git command failed: No such file or directory (os error 2)">>
    /\ exit_code' = MainExit("Err")
    /\ pc' = "exited"
    /\ UNCHANGED <<disk, cmd, file_list, file_hash_set, dir_matrix, file_tree, stdout,
                   fmt_in, fmt_out>>

Next ==
    \/ RunCommand
    \/ DecodeStdout
    \/ BuildMatrix
    \/ BuildTree
    \/ PrintTree
    \/ ExitOk
    \/ ExitErr

Spec == Init /\ [][Next]_vars

\* ------------------------------------------------- size_str on its own
\* The f64 arguments tried: integers around each unit boundary, each with
\* every fraction that is a multiple of 0.05.
FmtInts ==
    {0, 1, 9, 100, 999, 1000, 1001, 1999, 20500, 999999, 1000000, 1999999, 999999999,
     1000000000, 1999999999}

FmtInputs == {[ip |-> i, fp |-> 5 * f] : i \in FmtInts, f \in 0..19}

InitFmt ==
    /\ pc = "fmt"
    /\ disk = [i \in FileIds |-> Absent]
    /\ cmd = "none"
    /\ file_list = <<>>
    /\ file_hash_set = {}
    /\ dir_matrix = <<>>
    /\ file_tree = None
    /\ stdout = <<>>
    /\ stderr = <<>>
    /\ exit_code = -1
    /\ fmt_in = F64(0)
    /\ fmt_out = <<>>

\* One call size_str(x).
Format ==
    /\ pc = "fmt"
    /\ \E x \in FmtInputs :
          /\ fmt_in' = x
          /\ fmt_out' = size_str(x)
    /\ pc' = "formatted"
    /\ UNCHANGED <<disk, cmd, file_list, file_hash_set, dir_matrix, file_tree, stdout, stderr,
                   exit_code>>

NextFmt == Format

SpecFmt == InitFmt /\ [][NextFmt]_vars

\* ------------------------------------------------- vocabulary of the claims
RECURSIVE NodesAt(_, _)
\* Every node of tree t with its depth, t itself being at depth h.
NodesAt(t, h) ==
    {<<t, h>>} \cup UNION {NodesAt(t.nodes[k], h + 1) : k \in 1..Len(t.nodes)}

\* The nodes of the tree execute holds, each with its depth.
TreeNodes == IF file_tree.kind = "Some" THEN NodesAt(file_tree.tree, 0) ELSE {}

\* The sum of f[1..n].
RECURSIVE SumTo(_, _)
SumTo(f, n) == IF n = 0 THEN 0 ELSE f[n] + SumTo(f, n - 1)

\* The run is over: main exited, or a panic ended the process.
Terminated == pc \in {"exited", "panicked"}

\* execute got past line 215: the listing was read and decoded.
ListingRead == cmd \in {"ok", "git_error"} /\ pc \notin {"start", "decode"}

\* execute got past line 217.
MatrixBuilt == ListingRead /\ pc # "matrix"

\* The positions of the separators of path p.
SepPositions(p) == {i \in 1..Len(p) : p[i] = SEP}

\* The directory of depth k (k >= 1 segments) above file p: what precedes
\* p's k-th separator.
DirPrefix(p, k) ==
    LET pos == CHOOSE i \in SepPositions(p) :
                   Cardinality({j \in SepPositions(p) : j <= i}) = k
    IN SubSeq(p, 1, pos - 1)

\* e is d extended by exactly one path segment.
IsDirectChildDir(e, d) ==
    /\ Len(e) > Len(d) + 1
    /\ SubSeq(e, 1, Len(d)) = d
    /\ e[Len(d) + 1] = SEP
    /\ \A i \in (Len(d) + 2)..Len(e) : e[i] # SEP

\* ----------------------------------------------------------------- C1
\* C1: for every node of the tree FileTree::new returns, the node's size is
\* the sum of byte_size over its own files plus the sum of size over its
\* direct child nodes.
C1_AggregateSize ==
    \A nh \in TreeNodes :
        LET n == nh[1]
        IN n.size = SumTo([k \in 1..Len(n.files) |-> n.files[k].byte_size], Len(n.files))
                  + SumTo([k \in 1..Len(n.nodes) |-> n.nodes[k].size], Len(n.nodes))

\* A tree of three levels whose root has files of its own and a child that
\* itself has a child.
C1_Witness ==
    /\ file_tree.kind = "Some"
    /\ file_tree.tree.files # <<>>
    /\ \E k \in 1..Len(file_tree.tree.nodes) :
          /\ file_tree.tree.nodes[k].nodes # <<>>
          /\ file_tree.tree.nodes[k].size > 0

\* ----------------------------------------------------------------- C2
\* C2: for every node built at depth h with directory d, the node's
\* children are exactly the entries of matrix level h+1 that are d extended
\* by one path segment; an entry that merely contains d as a substring is
\* never a child.
C2_ChildrenAreDirectChildDirs ==
    \A nh \in TreeNodes :
        LET n == nh[1]
            h == nh[2]
            next_level == IF h + 2 <= Len(dir_matrix) THEN SeqToSet(dir_matrix[h + 2]) ELSE {}
        IN {n.nodes[k].dir : k \in 1..Len(n.nodes)}
               = {e \in next_level : IsDirectChildDir(e, n.dir)}

\* ----------------------------------------------------------------- C3
\* C3: when the listing succeeds and all metadata is readable, every listed
\* file (a file of the root included) appears in exactly one record of the
\* report, and the tree holds exactly one node for each directory of the
\* depth matrix.
C3_EveryFileReportedOnce ==
    (Terminated /\ cmd = "ok" /\ \A i \in Listed(disk) : disk[i].kind = "untracked") =>
        /\ pc = "exited"
        /\ \A i \in Listed(disk) :
              Cardinality({kj \in {<<k, j>> : k \in 1..Len(stdout), j \in 1..MaxFiles + 1} :
                              /\ kj[2] <= Len(stdout[kj[1]].files)
                              /\ stdout[kj[1]].files[kj[2]].path = <<DOT, SEP>> \o Catalogue[i]})
                  = 1
        /\ \A h \in 1..Len(dir_matrix) : \A w \in 1..Len(dir_matrix[h]) :
              Cardinality({k \in 1..Len(stdout) : stdout[k].dir = dir_matrix[h][w]}) = 1

\* ----------------------------------------------------------------- C4
\* C4: for every node of the built tree, the files attached to it are
\* exactly the target (untracked) files whose enclosing directory is the
\* node's directory; a file of the directory that is not a target is never
\* attached.
C4_ExactMembership ==
    \A nh \in TreeNodes :
        LET n == nh[1]
            attached == {StrFrom(n.files[k].path, 2) : k \in 1..Len(n.files)}
        IN /\ attached = {t \in file_hash_set : <<SEP>> \o ParentDir(t) = n.dir}
           /\ Cardinality(attached) = Len(n.files)
           /\ \A i \in FileIds : disk[i].kind = "tracked" => Catalogue[i] \notin attached

\* A node with a file attached, a tracked file beside it in the same
\* directory, and a target file in a directory below.
C4_Witness ==
    \E nh \in TreeNodes :
        /\ nh[1].files # <<>>
        /\ nh[1].nodes # <<>>
        /\ \E i \in FileIds :
              disk[i].kind = "tracked" /\ <<SEP>> \o ParentDir(Catalogue[i]) = nh[1].dir
        /\ \E k \in 1..Len(nh[1].nodes) : nh[1].nodes[k].files # <<>>

\* ----------------------------------------------------------------- C5
\* The directory levels the file list calls for, each directory written by
\* Render: level k (from 1) holds the depth-k directory of every file that
\* lies at least k directories deep.
ExpectedLevel(k, Render(_)) ==
    {Render(DirPrefix(p, k)) : p \in {q \in file_hash_set : Cardinality(SepPositions(q)) >= k}}

\* The largest number of directories above any listed file.
MaxDirDepth ==
    LET depths == {Cardinality(SepPositions(p)) : p \in file_hash_set} \cup {0}
    IN CHOOSE m \in depths : \A d \in depths : d <= m

\* What C5 says of the matrix whatever the rendering of a directory: the
\* levels' contents, no duplicate, no filename, the height.
MatrixShape(Render(_)) ==
    /\ Len(dir_matrix) = MaxDirDepth
    /\ \A k \in 1..Len(dir_matrix) :
          /\ SeqToSet(dir_matrix[k]) = ExpectedLevel(k, Render)
          /\ Cardinality(SeqToSet(dir_matrix[k])) = Len(dir_matrix[k])
          /\ \A p \in file_hash_set : Render(p) \notin SeqToSet(dir_matrix[k])

AsWritten(d) == d
WithLeadingSeparator(d) == <<SEP>> \o d

\* C5 as stated: level k of the matrix get_dir_hierarchy_matrix returns is
\* exactly the set of distinct directory paths formed by segments 0..=k of
\* each input path having more than k+1 segments, written as in the input
\* ("a", "a/b"); no level holds a filename or a duplicate; the number of
\* levels is the maximum directory depth.
C5_MatrixLevelsAsStated == MatrixBuilt => MatrixShape(AsWritten)

\* C5 as amended: the same, each directory path being written with a
\* leading separator ("/a", "/a/b"), the way the scan of line 113-117
\* accumulates it.
C5_MatrixLevels == MatrixBuilt => MatrixShape(WithLeadingSeparator)

\* A matrix of at least two levels, one of them with two directories, built
\* from a list that also holds a file of the root.
C5_Witness ==
    /\ MatrixBuilt
    /\ Len(dir_matrix) >= 2
    /\ \E k \in 1..Len(dir_matrix) : Len(dir_matrix[k]) >= 2
    /\ \E p \in file_hash_set : SepPositions(p) = {}

\* ----------------------------------------------------------------- C6
\* C6: when a listed file's metadata cannot be read, that file is skipped
\* and the run still completes: the failure never aborts the run (no
\* panic), and the process exits with code 0.
C6_UnreadableFileSkipped ==
    (ListingRead /\ cmd = "ok" /\ \E i \in Listed(disk) : disk[i].kind = "unreadable") =>
        /\ pc # "panicked"
        /\ pc = "exited" => exit_code = 0

\* ----------------------------------------------------------------- C7
\* An empty untracked-file list was read and the run is over.
EmptyListRunOver == Terminated /\ ListingRead /\ file_list = <<>>

C8_ExitCodes ==
    Terminated =>
        /\ exit_code = 0 <=> (cmd = "ok" /\ pc = "exited")
        /\ cmd \in {"spawn_error", "invalid_utf8", "git_error"} =>
              /\ exit_code = 1
              /\ Len(stderr) = 1
              /\ file_tree = None
              /\ stdout = <<>>

\* ----------------------------------------------------------------- C9
\* The number of positions of sequence s at which P holds.
Count(s, P(_)) == Cardinality({k \in 1..Len(s) : P(s[k])})

\* A printed record, or a node's FileTreeInfo, without the order of its files.
RecordKey(r) ==
    [dir |-> r.dir,
     size |-> r.size,
     files |-> {[path |-> r.files[k].path, byte_size |-> r.files[k].byte_size] :
                   k \in 1..Len(r.files)},
     nfiles |-> Len(r.files)]

RECURSIVE CountInTree(_, _)
\* The number of nodes of tree t that read as key.
CountInTree(t, key) ==
    (IF RecordKey(t) = key THEN 1 ELSE 0)
        + SumTo([k \in 1..Len(t.nodes) |-> CountInTree(t.nodes[k], key)], Len(t.nodes))

RECURSIVE NodeCount(_)
NodeCount(t) == 1 + SumTo([k \in 1..Len(t.nodes) |-> NodeCount(t.nodes[k])], Len(t.nodes))

\* C9: print emits exactly one directory record per node of the tree, in
\* nondecreasing order of node size, and under each directory record that
\* node's files in nondecreasing order of byte_size.
C9_ReportOrder ==
    (file_tree.kind = "Some" /\ pc \in {"ok", "exited"}) =>
        LET keys == {RecordKey(nh[1]) : nh \in TreeNodes}
                        \cup {RecordKey(stdout[k]) : k \in 1..Len(stdout)}
        IN /\ Len(stdout) = NodeCount(file_tree.tree)
           /\ \A key \in keys :
                 Count(stdout, LAMBDA r : RecordKey(r) = key)
                     = CountInTree(file_tree.tree, key)
           /\ \A k \in 1..(Len(stdout) - 1) : stdout[k].size <= stdout[k + 1].size
           /\ \A k \in 1..Len(stdout) : \A j \in 1..(Len(stdout[k].files) - 1) :
                 stdout[k].files[j].byte_size <= stdout[k].files[j + 1].byte_size

\* A printed tree of several nodes whose root is larger than a child, with
\* a node whose files were listed largest first.
C9_Witness ==
    /\ pc = "exited"
    /\ file_tree.kind = "Some"
    /\ \E k \in 1..Len(file_tree.tree.nodes) : file_tree.tree.nodes[k].size < file_tree.tree.size
    /\ \E nh \in TreeNodes :
          /\ Len(nh[1].files) >= 2
          /\ nh[1].files[1].byte_size > nh[1].files[2].byte_size

\* ----------------------------------------------------------------- C10
\* The unit the claim assigns to x, as a power of ten: b below 1000, kb
\* below 1,000,000, mb below 1,000,000,000, gb otherwise.
ClaimedUnit(x) ==
    IF x.ip < 1000 THEN 0 ELSE IF x.ip < 1000000 THEN 3 ELSE IF x.ip < 1000000000 THEN 6 ELSE 9

UnitSuffix(k) ==
    IF k = 0 THEN <<"b">>
    ELSE IF k = 3 THEN <<"k", "b">>
    ELSE IF k = 6 THEN <<"m", "b">>
    ELSE <<"g", "b">>

\* floor(10 * x / 10^k): x over the unit, cut to one fraction digit, in tenths.
TruncatedTenths(x, k) ==
    IF k = 0 THEN 10 * x.ip + (x.fp \div 10) ELSE x.ip \div Pow10(k - 1)

IsDigit(c) == \E d \in 1..10 : DIGITS[d] = c
DigitValue(c) == (CHOOSE d \in 1..10 : DIGITS[d] = c) - 1

RECURSIVE ParseNat(_)
ParseNat(s) ==
    IF s = <<>> THEN 0 ELSE 10 * ParseNat(SubSeq(s, 1, Len(s) - 1)) + DigitValue(s[Len(s)])

\* s reads as a number of the given tenths, with at most one digit after
\* the decimal point.
ReadsAsTenths(s, tenths) ==
    LET dots == {i \in 1..Len(s) : s[i] = DOT}
    IN IF dots = {}
       THEN /\ s # <<>>
            /\ \A i \in 1..Len(s) : IsDigit(s[i])
            /\ 10 * ParseNat(s) = tenths
       ELSE /\ dots = {Len(s) - 1}
            /\ Len(s) >= 3
            /\ \A i \in (1..Len(s)) \ dots : IsDigit(s[i])
            /\ 10 * ParseNat(SubSeq(s, 1, Len(s) - 2)) + DigitValue(s[Len(s)]) = tenths

\* C10: for every non-negative x, size_str(x) is x divided by the unit,
\* truncated to at most one digit after the decimal point, followed by the
\* unit suffix, the unit switching at 1000-multiples.
C10_SizeStr ==
    pc = "formatted" =>
        LET k == ClaimedUnit(fmt_in)
            suffix == UnitSuffix(k)
            n == Len(fmt_out) - Len(suffix)
        IN /\ n >= 1
           /\ SubSeq(fmt_out, n + 1, Len(fmt_out)) = suffix
           /\ ReadsAsTenths(SubSeq(fmt_out, 1, n), TruncatedTenths(fmt_in, k))

====
